---- MODULE Spec2Model ----
(***************************************************************************)
(* Schedule generation for measuring the cross-resonance Hamiltonian:      *)
(* qiskit/ignis/characterization/hamiltonian/schedule.py                   *)
(*                                                                         *)
(* The module is a set of pure builders over qiskit.pulse schedules.  A    *)
(* schedule is modelled as a name and a set of timed instructions; the     *)
(* library operations the builders call (Schedule(), insert, shift,        *)
(* duration, filter, channels, CmdDef.get) are modelled by what they do:   *)
(* insert and shift RETURN a new schedule and leave their receiver         *)
(* unchanged, duration is the largest stop time, insert raises PulseError  *)
(* when two instructions overlap on a channel, Python's '%d' % v raises    *)
(* TypeError unless v is a number.                                         *)
(*                                                                         *)
(* The state is one backend snapshot (chosen in Init), the last call made  *)
(* on it and what that call returned or raised.  The float array cr_times  *)
(* returned beside the schedules by the two Rabi builders is not modelled. *)
(***************************************************************************)
EXTENDS Integers, Sequences, FiniteSets, TLC

VARIABLES backend, call, ret

vars == <<backend, call, ret>>

(***************************************************************************)
(* Bounds of the model.                                                    *)
(***************************************************************************)
MaxBuffer == 1
MaxFlip == 2
MaxRot == 2
MaxMeas == 1
MaxN == 2
MaxSample == 2

Qubits == {0, 1}

Max(a, b) == IF a >= b THEN a ELSE b

(***************************************************************************)
(* Python values that can be a schedule's name: an int, a str, or None.    *)
(***************************************************************************)
IntVal(n) == [kind |-> "int", int |-> n, str |-> ""]
StrVal(s) == [kind |-> "str", int |-> 0, str |-> s]

Digits == <<"0", "1", "2", "3", "4", "5", "6", "7", "8", "9">>

RECURSIVE FormatNat(_)
FormatNat(n) ==
    IF n < 10 THEN Digits[n + 1]
    ELSE FormatNat(n \div 10) \o Digits[(n % 10) + 1]

\* '%d' % n for an int n
FormatD(n) == IF n < 0 THEN "-" \o FormatNat(-n) ELSE FormatNat(n)

\* '%d' % v for any value v: a TypeError unless v is a number
PercentD(v) ==
    IF v.kind = "int" THEN [exc |-> "", str |-> FormatD(v.int)]
    ELSE [exc |-> "TypeError", str |-> ""]

(***************************************************************************)
(* qiskit.pulse: channels, instructions, schedules.                        *)
(***************************************************************************)
DriveChannel(q) == [kind |-> "drive", index |-> q]
ControlChannel(u) == [kind |-> "control", index |-> u]
MeasureChannel(q) == [kind |-> "measure", index |-> q]
AcquireChannel(q) == [kind |-> "acquire", index |-> q]

NoChannel == [kind |-> "none", index |-> 0]

\* one timed instruction: command `name` of instruction type `type` on `ch`
Instruction(t0, dur, ch, type, name) ==
    [t0 |-> t0, dur |-> dur, ch |-> ch, type |-> type, name |-> name]

\* pulse.Schedule(name=...)
Schedule(name) == [name |-> name, insts |-> {}]

\* command(channel): a schedule of one instruction at time 0
Bind(dur, ch, type, name) ==
    [name |-> StrVal(name), insts |-> {Instruction(0, dur, ch, type, name)}]

StopTimes(sched) == {i.t0 + i.dur : i \in sched.insts}

\* Schedule.duration
Duration(sched) ==
    IF sched.insts = {} THEN 0
    ELSE CHOOSE m \in StopTimes(sched) : \A s \in StopTimes(sched) : s <= m

ShiftInsts(insts, time) ==
    {Instruction(i.t0 + time, i.dur, i.ch, i.type, i.name) : i \in insts}

\* Schedule.shift(time): a new schedule
Shift(sched, time) == [name |-> sched.name, insts |-> ShiftInsts(sched.insts, time)]

\* timeslots of two instructions collide
Collide(i, j) == i.ch = j.ch /\ i.t0 < j.t0 + j.dur /\ j.t0 < i.t0 + i.dur

\* Schedule.insert raises PulseError
Overlap(sched, start_time, child) ==
    \E i \in sched.insts : \E j \in ShiftInsts(child.insts, start_time) : Collide(i, j)

\* Schedule.insert(start_time, child): a new schedule, named as the receiver
Insert(sched, start_time, child) ==
    [name |-> sched.name,
     insts |-> sched.insts \cup ShiftInsts(child.insts, start_time)]

(***************************************************************************)
(* The backend snapshot: defaults.buffer, the durations of the calibrated  *)
(* 'x', 'u2' and 'measure' schedules, and the 'cx' entries of the command  *)
(* definition.                                                             *)
(***************************************************************************)
PulseInst(ch, name) == Instruction(0, 1, ch, "PulseInstruction", name)
FrameChangeInst(ch, name) == Instruction(0, 0, ch, "FrameChangeInstruction", name)

\* the instructions of a 'cx' schedule, in the order they were added
CxStandard(c, t) ==
    <<PulseInst(DriveChannel(c), "x90"), PulseInst(ControlChannel(c), "cr90"),
      PulseInst(DriveChannel(t), "can90"), FrameChangeInst(ControlChannel(c), "fc")>>
\* the control channel carries frame changes only
CxFrameOnly(c, t) ==
    <<PulseInst(DriveChannel(c), "x90"), FrameChangeInst(ControlChannel(c), "fc"),
      PulseInst(DriveChannel(t), "can90")>>
\* two control channels carry pulses
CxTwoControl(c, t) ==
    <<PulseInst(DriveChannel(t), "can90"), PulseInst(ControlChannel(t), "cr90"),
      PulseInst(ControlChannel(c), "cr90")>>

CxVariants == {"absent", "standard", "frame_only", "two_control"}

CxEntry(variant, c, t) ==
    [defined |-> variant # "absent",
     insts |-> CASE variant = "standard" -> CxStandard(c, t)
                 [] variant = "frame_only" -> CxFrameOnly(c, t)
                 [] variant = "two_control" -> CxTwoControl(c, t)
                 [] OTHER -> <<>>]

\* a command definition: no 'cx' between a qubit and itself
CxTable(v01, v10) ==
    [p \in Qubits \X Qubits |->
        IF p = <<0, 1>> THEN CxEntry(v01, 0, 1)
        ELSE IF p = <<1, 0>> THEN CxEntry(v10, 1, 0)
        ELSE CxEntry("absent", p[1], p[2])]

\* the calibrated durations a backend can have
Calibrations ==
    [buffer : 0 .. MaxBuffer,
     flip : 1 .. MaxFlip,
     xrot : 1 .. MaxRot,
     yrot : 1 .. MaxRot,
     meas : 1 .. MaxMeas]

BackendOf(cal, v01, v10) ==
    [buffer |-> cal.buffer, flip |-> cal.flip, xrot |-> cal.xrot,
     yrot |-> cal.yrot, meas |-> cal.meas, cx |-> CxTable(v01, v10)]

\* the shortest calibration
MinCalibration == [buffer |-> 0, flip |-> 1, xrot |-> 1, yrot |-> 1, meas |-> 1]

\* The durations and the 'cx' entries are varied one at a time: channel
\* resolution reads no duration, and the schedules built read no 'cx' entry
\* beyond the channel resolved from it.
Backends ==
    {BackendOf(cal, "standard", "frame_only") : cal \in Calibrations}
    \cup {BackendOf(MinCalibration, v, "standard")
              : v \in CxVariants \ {"standard"}}

(***************************************************************************)
(* _get_channels                                                           *)
(***************************************************************************)
\* a filter that keeps every instruction type
FilterNothing(insts) == insts

\* Schedule.filter(instruction_types=[PulseInstruction])
FilterPulse(insts) == SelectSeq(insts, LAMBDA i : i.type = "PulseInstruction")

\* Schedule.channels: the channels in the order they first occur
RECURSIVE ChannelsOf(_)
ChannelsOf(insts) ==
    IF insts = <<>> THEN <<>>
    ELSE LET rest == ChannelsOf(SubSeq(insts, 1, Len(insts) - 1))
             ch == insts[Len(insts)].ch
         IN  IF \E k \in DOMAIN rest : rest[k] = ch THEN rest ELSE Append(rest, ch)

\* for channel in channels: if isinstance(channel, ControlChannel): ... break
\* else: raise
RECURSIVE FirstControl(_)
FirstControl(channels) ==
    IF channels = <<>> THEN NoChannel
    ELSE IF Head(channels).kind = "control" THEN Head(channels)
    ELSE FirstControl(Tail(channels))

ErrNoCx == "CharacterizationError: Cross resonance is not defined"
ErrNoControl == "CharacterizationError: No valid control channel"

Raised(exc) ==
    [exc |-> exc, c_drive |-> NoChannel, t_drive |-> NoChannel, cr_drive |-> NoChannel]

_get_channels(c_qubit, t_qubit, bk) ==
    LET entry == bk.cx[<<c_qubit, t_qubit>>] IN
    IF ~entry.defined THEN Raised(ErrNoCx)
    ELSE LET cx_ref == FilterPulse(entry.insts)
             cr_drive == FirstControl(ChannelsOf(cx_ref))
         IN  IF cr_drive = NoChannel THEN Raised(ErrNoControl)
             ELSE [exc |-> "",
                   c_drive |-> DriveChannel(c_qubit),
                   t_drive |-> DriveChannel(t_qubit),
                   cr_drive |-> cr_drive]

(***************************************************************************)
(* cr1_rabi_schedules                                                      *)
(***************************************************************************)
\* pulse_lib.gaussian_square(duration, amp, sigma, risefall)(channel)
GaussianSquare(duration, name, channel) ==
    Bind(duration, channel, "PulseInstruction", name)

\* pulse.commands.Delay(duration)(channel)
Delay(duration, channel) == Bind(duration, channel, "DelayInstruction", "delay")

\* the body of the loop; the value of each sched.insert(...) statement is
\* dropped, so the schedule appended is the one constructed on the first line
cr1_body(index, cr_sample, cancellation_amp, t_drive, cr_drive) ==
    LET sched == Schedule(StrVal(FormatD(index)))
        cr_sched == GaussianSquare(cr_sample, "cr_p", cr_drive)
        can_sched == IF cancellation_amp
                     THEN GaussianSquare(cr_sample, "can_p", t_drive)
                     ELSE Delay(cr_sample, t_drive)
        raises == \/ Overlap(sched, 0, cr_sched)
                  \/ Overlap(sched, 0, can_sched)
    IN  [exc |-> IF raises THEN "PulseError" ELSE "", sched |-> sched]

\* the exception of the first iteration that raises, "" when none does
RECURSIVE FirstExc(_)
FirstExc(built) ==
    IF built = <<>> THEN ""
    ELSE IF Head(built).exc # "" THEN Head(built).exc
    ELSE FirstExc(Tail(built))

NoResult(exc) ==
    [exc |-> exc, c_drive |-> NoChannel, t_drive |-> NoChannel,
     cr_drive |-> NoChannel, schedules |-> <<>>]

Returned(built) ==
    IF FirstExc(built) # "" THEN NoResult(FirstExc(built))
    ELSE [exc |-> "", c_drive |-> NoChannel, t_drive |-> NoChannel,
          cr_drive |-> NoChannel,
          schedules |-> [k \in DOMAIN built |-> built[k].sched]]

cr1_rabi_schedules(c_qubit, t_qubit, bk, cr_samples, cancellation_amp) ==
    LET chans == _get_channels(c_qubit, t_qubit, bk) IN
    IF chans.exc # "" THEN NoResult(chans.exc)
    ELSE Returned([k \in DOMAIN cr_samples |->
             cr1_body(k - 1, cr_samples[k], cancellation_amp,
                      chans.t_drive, chans.cr_drive)])

(***************************************************************************)
(* cr2_rabi_schedules                                                      *)
(***************************************************************************)
\* cmd_def.get('x', qubits=q)
XSchedule(q, bk) == Bind(bk.flip, DriveChannel(q), "PulseInstruction", "x")

\* int(0.5 * cr_sample)
HalfSample(cr_sample) ==
    IF cr_sample >= 0 THEN cr_sample \div 2 ELSE -((-cr_sample) \div 2)

cr2_body(index, cr_sample, cancellation_amp, t_drive, cr_drive, echo_pi, buffer) ==
    LET sched == Schedule(StrVal(FormatD(index)))
        half_cr_sample == HalfSample(cr_sample)
        cr_sched_p == GaussianSquare(half_cr_sample, "cr_p", cr_drive)
        cr_sched_m == GaussianSquare(half_cr_sample, "cr_m", cr_drive)
        can_sched_p == IF cancellation_amp
                       THEN GaussianSquare(half_cr_sample, "can_p", t_drive)
                       ELSE Delay(half_cr_sample, t_drive)
        can_sched_m == IF cancellation_amp
                       THEN GaussianSquare(half_cr_sample, "can_m", t_drive)
                       ELSE Delay(half_cr_sample, t_drive)
        raises == \/ Overlap(sched, 0, cr_sched_p)
                  \/ Overlap(sched, 0, can_sched_p)
                  \/ Overlap(sched, Duration(sched) + buffer, echo_pi)
                  \/ Overlap(sched, Duration(sched) + buffer, cr_sched_m)
                  \/ Overlap(sched, Duration(sched) + buffer, can_sched_m)
                  \/ Overlap(sched, Duration(sched) + buffer, echo_pi)
    IN  [exc |-> IF raises THEN "PulseError" ELSE "", sched |-> sched]

cr2_rabi_schedules(c_qubit, t_qubit, bk, cr_samples, cancellation_amp) ==
    LET chans == _get_channels(c_qubit, t_qubit, bk) IN
    IF chans.exc # "" THEN NoResult(chans.exc)
    ELSE LET echo_pi == XSchedule(c_qubit, bk)
             buffer == bk.buffer
         IN  Returned([k \in DOMAIN cr_samples |->
                 cr2_body(k - 1, cr_samples[k], cancellation_amp,
                          chans.t_drive, chans.cr_drive, echo_pi, buffer)])

(***************************************************************************)
(* cr_tomography_schedules                                                 *)
(***************************************************************************)
\* cmd_def.get('measure', qubits=meas_map[0]): every qubit is measured
MeasureSchedule(bk) ==
    [name |-> StrVal("measure"),
     insts |-> {Instruction(0, bk.meas, MeasureChannel(q), "PulseInstruction", "measure")
                   : q \in Qubits}
               \cup {Instruction(0, bk.meas, AcquireChannel(q), "AcquireInstruction", "acquire")
                   : q \in Qubits}]

\* cmd_def.get('u2', qubits=t_qubit, P0=0, P1=...)
U2Schedule(q, dur, name) == Bind(dur, DriveChannel(q), "PulseInstruction", name)

\* the delay taken from the x rotation alone
proj_delay_x_only(bk) == bk.xrot + bk.buffer

proj_delay(bk) == Max(bk.xrot, bk.yrot) + bk.buffer

\* the z entry left at offset 0
meas_basis_z_unshifted(t_qubit, bk) ==
    LET measure == MeasureSchedule(bk)
        xproj_sched == U2Schedule(t_qubit, bk.xrot, "u2x")
        yproj_sched == U2Schedule(t_qubit, bk.yrot, "u2y")
    IN  <<[basis |-> "x", exc |-> "",
           sched |-> Insert(xproj_sched, proj_delay(bk), measure)],
          [basis |-> "y", exc |-> "",
           sched |-> Insert(yproj_sched, proj_delay(bk), measure)],
          [basis |-> "z", exc |-> "", sched |-> measure]>>

\* the dict meas_basis, in the order of its keys
meas_basis(t_qubit, bk) ==
    LET measure == MeasureSchedule(bk)
        xproj_sched == U2Schedule(t_qubit, bk.xrot, "u2x")
        yproj_sched == U2Schedule(t_qubit, bk.yrot, "u2y")
    IN  <<[basis |-> "x",
           exc |-> IF Overlap(xproj_sched, proj_delay(bk), measure) THEN "PulseError" ELSE "",
           sched |-> Insert(xproj_sched, proj_delay(bk), measure)],
          [basis |-> "y",
           exc |-> IF Overlap(yproj_sched, proj_delay(bk), measure) THEN "PulseError" ELSE "",
           sched |-> Insert(yproj_sched, proj_delay(bk), measure)],
          [basis |-> "z",
           exc |-> "",
           sched |-> Shift(measure, proj_delay(bk))]>>

\* the flip duration counted only when the flip is inserted
rabi_offset_skip_flip(c_state, flip_ctrl, buffer) ==
    IF c_state # 0 THEN Duration(flip_ctrl) + buffer ELSE buffer

\* the flip duration never counted
rabi_offset_buffer_only(c_state, flip_ctrl, buffer) == buffer

\* the offset the Rabi schedule is inserted at: flip_ctrl.duration + buffer
rabi_offset(c_state, flip_ctrl, buffer) == Duration(flip_ctrl) + buffer

\* the body of the innermost loop
tomography_body(rabi_sched, basis, meas_sched, c_state, flip_ctrl, buffer) ==
    LET rabi_name == PercentD(rabi_sched.name)
        name == rabi_name.str \o "," \o basis \o "," \o FormatD(c_state)
        sched0 == Schedule(StrVal(name))
        sched1 == IF c_state # 0 THEN Insert(sched0, 0, flip_ctrl) ELSE sched0
        at2 == rabi_offset(c_state, flip_ctrl, buffer)
        sched2 == Insert(sched1, at2, rabi_sched)
        at3 == Duration(sched2) + buffer
        sched3 == Insert(sched2, at3, meas_sched)
        raises == \/ c_state # 0 /\ Overlap(sched0, 0, flip_ctrl)
                  \/ Overlap(sched1, at2, rabi_sched)
                  \/ Overlap(sched2, at3, meas_sched)
    IN  IF rabi_name.exc # "" THEN [exc |-> rabi_name.exc, sched |-> sched0]
        ELSE [exc |-> IF raises THEN "PulseError" ELSE "", sched |-> sched3]

\* the control states taken as (1, 0)
StateLoopSwapped(rabi_sched, entry, flip_ctrl, buffer) ==
    <<tomography_body(rabi_sched, entry.basis, entry.sched, 1, flip_ctrl, buffer),
      tomography_body(rabi_sched, entry.basis, entry.sched, 0, flip_ctrl, buffer)>>

\* for c_state in (0, 1)
StateLoop(rabi_sched, entry, flip_ctrl, buffer) ==
    <<tomography_body(rabi_sched, entry.basis, entry.sched, 0, flip_ctrl, buffer),
      tomography_body(rabi_sched, entry.basis, entry.sched, 1, flip_ctrl, buffer)>>

\* for basis, meas_sched in meas_basis.items()
RECURSIVE BasisLoop(_, _, _, _)
BasisLoop(rabi_sched, bases, flip_ctrl, buffer) ==
    IF bases = <<>> THEN <<>>
    ELSE StateLoop(rabi_sched, Head(bases), flip_ctrl, buffer)
         \o BasisLoop(rabi_sched, Tail(bases), flip_ctrl, buffer)

\* for rabi_sched in rabi_schedules
RECURSIVE RabiLoop(_, _, _, _)
RabiLoop(rabi_schedules, bases, flip_ctrl, buffer) ==
    IF rabi_schedules = <<>> THEN <<>>
    ELSE BasisLoop(Head(rabi_schedules), bases, flip_ctrl, buffer)
         \o RabiLoop(Tail(rabi_schedules), bases, flip_ctrl, buffer)

cr_tomography_schedules(c_qubit, t_qubit, bk, rabi_schedules) ==
    LET buffer == bk.buffer
        flip_ctrl == XSchedule(c_qubit, bk)
        bases == meas_basis(t_qubit, bk)
    IN  IF FirstExc(bases) # "" THEN NoResult(FirstExc(bases))
        ELSE Returned(RabiLoop(rabi_schedules, bases, flip_ctrl, buffer))

(***************************************************************************)
(* The calls a user makes on one backend snapshot.                         *)
(***************************************************************************)
\* lists of at most MaxN durations, each in 1 .. MaxSample
SampleLists == UNION {[1 .. n -> 1 .. MaxSample] : n \in 0 .. MaxN}

\* Rabi schedules a caller builds by hand for the pair: a CR pulse and a
\* delay of the given duration, named by the index as an int or as a str
CallerRabi(c_qubit, t_qubit, durations, name_kind) ==
    [k \in DOMAIN durations |->
        [name |-> IF name_kind = "int" THEN IntVal(k - 1) ELSE StrVal(FormatD(k - 1)),
         insts |-> {Instruction(0, durations[k], ControlChannel(c_qubit),
                                "PulseInstruction", "cr_p"),
                    Instruction(0, durations[k], DriveChannel(t_qubit),
                                "DelayInstruction", "delay")}]]

\* the (control, target) pairs the builders are called for
Pairs == {p \in Qubits \X Qubits : p[1] # p[2]}

NoCall ==
    [op |-> "none", c_qubit |-> 0, t_qubit |-> 0, cr_samples |-> <<>>,
     cancellation_amp |-> FALSE, rabi_schedules |-> <<>>, src |-> "none"]

Init ==
    /\ backend \in Backends
    /\ call = NoCall
    /\ ret = NoResult("")

GetChannels ==
    \E c \in Qubits, t \in Qubits :
        /\ call.op = "none"
        /\ call' = [NoCall EXCEPT !.op = "_get_channels", !.c_qubit = c, !.t_qubit = t]
        /\ ret' = LET chans == _get_channels(c, t, backend) IN
                  [exc |-> chans.exc, c_drive |-> chans.c_drive,
                   t_drive |-> chans.t_drive, cr_drive |-> chans.cr_drive,
                   schedules |-> <<>>]
        /\ UNCHANGED backend

Cr1Rabi ==
    \E p \in Pairs, samples \in SampleLists, can \in BOOLEAN :
        LET c == p[1]
            t == p[2]
        IN
        /\ call.op = "none"
        /\ call' = [NoCall EXCEPT !.op = "cr1_rabi_schedules", !.c_qubit = c,
                                  !.t_qubit = t, !.cr_samples = samples,
                                  !.cancellation_amp = can]
        /\ ret' = cr1_rabi_schedules(c, t, backend, samples, can)
        /\ UNCHANGED backend

Cr2Rabi ==
    \E p \in Pairs, samples \in SampleLists, can \in BOOLEAN :
        LET c == p[1]
            t == p[2]
        IN
        /\ call.op = "none"
        /\ call' = [NoCall EXCEPT !.op = "cr2_rabi_schedules", !.c_qubit = c,
                                  !.t_qubit = t, !.cr_samples = samples,
                                  !.cancellation_amp = can]
        /\ ret' = cr2_rabi_schedules(c, t, backend, samples, can)
        /\ UNCHANGED backend

\* tomography of the schedules the last builder call returned
TomographyOfBuilt ==
    /\ call.op \in {"cr1_rabi_schedules", "cr2_rabi_schedules"}
    /\ ret.exc = ""
    /\ call' = [NoCall EXCEPT !.op = "cr_tomography_schedules",
                              !.c_qubit = call.c_qubit, !.t_qubit = call.t_qubit,
                              !.rabi_schedules = ret.schedules, !.src = call.op]
    /\ ret' = cr_tomography_schedules(call.c_qubit, call.t_qubit, backend, ret.schedules)
    /\ UNCHANGED backend

\* tomography of schedules the caller built
TomographyOfGiven ==
    \E p \in Pairs, durations \in SampleLists, kind \in {"int", "str"} :
        LET c == p[1]
            t == p[2]
            rabi == CallerRabi(c, t, durations, kind)
        IN
        /\ call.op = "none"
        /\ call' = [NoCall EXCEPT !.op = "cr_tomography_schedules", !.c_qubit = c,
                                  !.t_qubit = t, !.rabi_schedules = rabi,
                                  !.src = "caller"]
        /\ ret' = cr_tomography_schedules(c, t, backend, rabi)
        /\ UNCHANGED backend

\* the caller is done with what the last call returned
Return ==
    /\ call.op # "none"
    /\ call' = NoCall
    /\ ret' = NoResult("")
    /\ UNCHANGED backend

Next ==
    \/ GetChannels
    \/ Cr1Rabi
    \/ Cr2Rabi
    \/ TomographyOfBuilt
    \/ TomographyOfGiven
    \/ Return

Spec == Init /\ [][Next]_vars

(***************************************************************************)
(* Vocabulary of the properties.                                           *)
(***************************************************************************)
Cr1Returned == call.op = "cr1_rabi_schedules" /\ ret.exc = ""
Cr2Returned == call.op = "cr2_rabi_schedules" /\ ret.exc = ""
TomographyReturned == call.op = "cr_tomography_schedules" /\ ret.exc = ""

BasisOrder == <<"x", "y", "z">>

\* the position in the result of Rabi schedule i (from 0), basis b (0, 1, 2)
\* and control state c
Position(i, b, c) == i * 6 + b * 2 + c + 1

RabiNames == {"cr_p", "cr_m", "can_p", "can_m", "delay"}
MeasNames == {"measure", "acquire"}

RabiPart(sched) == {i \in sched.insts : i.name \in RabiNames}
MeasPart(sched) == {i \in sched.insts : i.name \in MeasNames}
NamesIn(sched) == {i.name : i \in sched.insts}

FlipInst(q) == Instruction(0, backend.flip, DriveChannel(q), "PulseInstruction", "x")

\* every (Rabi index, basis index, control state) of the last tomography call
Combos == (0 .. Len(call.rabi_schedules) - 1) \X (0 .. 2) \X (0 .. 1)

OutputOf(k) == ret.schedules[Position(k[1], k[2], k[3])]
RabiOf(k) == call.rabi_schedules[k[1] + 1]

\* the latest offset the model can place a Rabi schedule at
MaxOffset == MaxFlip + MaxBuffer + 1

(***************************************************************************)
(* C1: cr1_rabi_schedules returns one schedule per requested duration, in  *)
(* input order, and the total duration of the i-th schedule is             *)
(* cr_samples[i].                                                          *)
(***************************************************************************)
C1_Cr1Durations ==
    Cr1Returned =>
        /\ Len(ret.schedules) = Len(call.cr_samples)
        /\ \A k \in DOMAIN ret.schedules :
               Duration(ret.schedules[k]) = call.cr_samples[k]

\* what the code does instead: as many schedules as durations, all empty
C1_Cr1ReturnsEmpty ==
    Cr1Returned =>
        /\ Len(ret.schedules) = Len(call.cr_samples)
        /\ \A k \in DOMAIN ret.schedules :
               /\ ret.schedules[k].insts = {}
               /\ Duration(ret.schedules[k]) = 0

(***************************************************************************)
(* C2: the total duration of every schedule cr2_rabi_schedules returns is  *)
(* 2*floor(d/2) + 2*buffer + 2*flip_duration for its requested duration d. *)
(***************************************************************************)
C2_Cr2Duration ==
    Cr2Returned =>
        \A k \in DOMAIN ret.schedules :
            Duration(ret.schedules[k]) =
                2 * (call.cr_samples[k] \div 2) + 2 * backend.buffer + 2 * backend.flip

(***************************************************************************)
(* C8: every schedule cr2_rabi_schedules returns holds, in time order, the *)
(* positive half CR pulse with its cancellation pulse or delay at offset   *)
(* 0, the inversion schedule, the negative half CR pulse with its          *)
(* cancellation pulse or delay at one common offset, and the inversion     *)
(* schedule again, each of the last three starting one buffer after the    *)
(* end of what precedes it.                                                *)
(***************************************************************************)
C8_Cr2Sequence ==
    Cr2Returned =>
        \A k \in DOMAIN ret.schedules :
            LET sched == ret.schedules[k]
                half == call.cr_samples[k] \div 2
                chans == _get_channels(call.c_qubit, call.t_qubit, backend)
                echo1 == half + backend.buffer
                minus == echo1 + backend.flip + backend.buffer
                echo2 == minus + half + backend.buffer
                OnTarget(t0) == \E i \in sched.insts :
                                   /\ i.ch = chans.t_drive
                                   /\ i.t0 = t0
                                   /\ i.dur = half
                                   /\ i.name \in {"can_p", "can_m", "delay"}
                Echo(t0) == Instruction(t0, backend.flip, DriveChannel(call.c_qubit),
                                        "PulseInstruction", "x")
            IN  /\ Instruction(0, half, chans.cr_drive, "PulseInstruction", "cr_p")
                       \in sched.insts
                /\ OnTarget(0)
                /\ Echo(echo1) \in sched.insts
                /\ Instruction(minus, half, chans.cr_drive, "PulseInstruction", "cr_m")
                       \in sched.insts
                /\ OnTarget(minus)
                /\ Echo(echo2) \in sched.insts

(***************************************************************************)
(* C7: cr_tomography_schedules, given the schedules cr1_rabi_schedules or  *)
(* cr2_rabi_schedules returned, completes without error and names every    *)
(* output schedule '<rabi index>,<basis letter>,<control state>'.          *)
(***************************************************************************)
C7_TomographyOfBuiltNames ==
    (call.op = "cr_tomography_schedules" /\ call.src # "caller") =>
        /\ ret.exc = ""
        /\ Len(ret.schedules) = 6 * Len(call.rabi_schedules)
        /\ \A k \in Combos :
               OutputOf(k).name =
                   StrVal(FormatD(k[1]) \o "," \o BasisOrder[k[2] + 1] \o ","
                          \o FormatD(k[3]))

(***************************************************************************)
(* C3: when cr_tomography_schedules returns for M Rabi schedules, the      *)
(* result has 6*M schedules and the one at position                        *)
(* rabi_idx*6 + basis_idx*2 + control_state holds Rabi schedule rabi_idx   *)
(* (shifted as a whole), the rotation of basis basis_idx (none for z)      *)
(* with the measurement, and the flip pulse exactly when control_state is  *)
(* 1.                                                                      *)
(***************************************************************************)
C3_TomographyOrder ==
    TomographyReturned =>
        /\ Len(ret.schedules) = 6 * Len(call.rabi_schedules)
        /\ \A k \in Combos :
               LET sched == OutputOf(k) IN
               /\ \E off \in 0 .. MaxOffset :
                      RabiPart(sched) = ShiftInsts(RabiOf(k).insts, off)
               /\ ("u2x" \in NamesIn(sched)) <=> (k[2] = 0)
               /\ ("u2y" \in NamesIn(sched)) <=> (k[2] = 1)
               /\ MeasNames \subseteq NamesIn(sched)
               /\ (FlipInst(call.c_qubit) \in sched.insts) <=> (k[3] = 1)

\* a tomography of two different Rabi schedules has returned
C3_Witness ==
    /\ TomographyReturned
    /\ Len(call.rabi_schedules) = 2
    /\ call.rabi_schedules[1].insts # call.rabi_schedules[2].insts
    /\ Len(ret.schedules) = 12

(***************************************************************************)
(* C4 as stated: in every output schedule with control state 0 the Rabi    *)
(* schedule is inserted at offset buffer, without the flip duration.       *)
(***************************************************************************)
C4_RabiAtBufferOnly ==
    TomographyReturned =>
        \A k \in Combos :
            k[3] = 0 => RabiPart(OutputOf(k)) = ShiftInsts(RabiOf(k).insts, backend.buffer)

(***************************************************************************)
(* C4 as amended: in every output schedule with control state 0 no flip    *)
(* pulse is inserted and the Rabi schedule is inserted at offset           *)
(* flip duration + buffer, as it is with control state 1.                  *)
(***************************************************************************)
C4_RabiAfterFlipSlot ==
    TomographyReturned =>
        \A k \in Combos :
            k[3] = 0 =>
                /\ "x" \notin NamesIn(OutputOf(k))
                /\ RabiPart(OutputOf(k)) =
                       ShiftInsts(RabiOf(k).insts, backend.flip + backend.buffer)

\* an output schedule with control state 0 holds a Rabi schedule
C4_Witness ==
    /\ TomographyReturned
    /\ \E k \in Combos :
           /\ k[3] = 0
           /\ RabiOf(k).insts # {}
           /\ RabiPart(OutputOf(k)) # {}
           /\ "x" \notin NamesIn(OutputOf(k))

(***************************************************************************)
(* C5: in every output schedule with control state 1 the control qubit's   *)
(* flip schedule is at offset 0, the Rabi schedule is inserted at offset   *)
(* flip duration + buffer, and no instruction of the Rabi schedule starts  *)
(* before the flip has ended.                                              *)
(***************************************************************************)
C5_RabiAfterFlip ==
    TomographyReturned =>
        \A k \in Combos :
            k[3] = 1 =>
                /\ FlipInst(call.c_qubit) \in OutputOf(k).insts
                /\ RabiPart(OutputOf(k)) =
                       ShiftInsts(RabiOf(k).insts, backend.flip + backend.buffer)
                /\ \A r \in RabiPart(OutputOf(k)) : r.t0 >= backend.flip

\* an output schedule with control state 1 holds the flip and a Rabi schedule
C5_Witness ==
    /\ TomographyReturned
    /\ \E k \in Combos :
           /\ k[3] = 1
           /\ RabiPart(OutputOf(k)) # {}
           /\ FlipInst(call.c_qubit) \in OutputOf(k).insts

(***************************************************************************)
(* C6: channel resolution, in _get_channels and in the two Rabi builders,  *)
(* raises 'Cross resonance is not defined' exactly when the command        *)
(* definition has no 'cx' for (c_qubit, t_qubit), raises 'No valid control *)
(* channel' exactly when it has one and no pulse instruction of it is on a *)
(* ControlChannel, and otherwise returns the three channels; when it       *)
(* raises, no channel and no schedule is returned.                         *)
(***************************************************************************)
C6_ChannelResolution ==
    call.op \in {"_get_channels", "cr1_rabi_schedules", "cr2_rabi_schedules"} =>
        LET entry == backend.cx[<<call.c_qubit, call.t_qubit>>]
            PulseControl == {entry.insts[k].ch : k \in
                                {j \in DOMAIN entry.insts :
                                    /\ entry.insts[j].type = "PulseInstruction"
                                    /\ entry.insts[j].ch.kind = "control"}}
        IN  /\ ret.exc \in {"", ErrNoCx, ErrNoControl}
            /\ (ret.exc = ErrNoCx) <=> ~entry.defined
            /\ (ret.exc = ErrNoControl) <=> (entry.defined /\ PulseControl = {})
            /\ ret.exc # "" =>
                   /\ ret.schedules = <<>>
                   /\ ret.c_drive = NoChannel
                   /\ ret.t_drive = NoChannel
                   /\ ret.cr_drive = NoChannel
            /\ (ret.exc = "" /\ call.op = "_get_channels") =>
                   /\ ret.c_drive = DriveChannel(call.c_qubit)
                   /\ ret.t_drive = DriveChannel(call.t_qubit)
                   /\ ret.cr_drive \in PulseControl
            /\ (ret.exc = "" /\ call.op # "_get_channels") =>
                   Len(ret.schedules) = Len(call.cr_samples)

\* a builder asked for schedules on a pair whose 'cx' drives its control
\* channel with frame changes only
C6_Witness ==
    /\ call.op = "cr1_rabi_schedules"
    /\ Len(call.cr_samples) > 0
    /\ backend.cx[<<call.c_qubit, call.t_qubit>>].defined
    /\ ret.exc = ErrNoControl
    /\ ret.schedules = <<>>

(***************************************************************************)
(* C9: the three basis-measurement schedules of a tomography call are      *)
(* isochronous: in each the measurement block starts at                    *)
(* max(x rotation duration, y rotation duration) + buffer, the x and y     *)
(* rotations start at 0 and end at least one buffer before it, and the z   *)
(* schedule holds the shifted measurement block only; so the outputs of    *)
(* one Rabi schedule and control state measure at the same time in all     *)
(* three bases.                                                            *)
(***************************************************************************)
C9_IsochronousBases ==
    call.op = "cr_tomography_schedules" =>
        LET bases == meas_basis(call.t_qubit, backend)
            delay == Max(backend.xrot, backend.yrot) + backend.buffer
            block == ShiftInsts(MeasureSchedule(backend).insts, delay)
            Rotation(b) == bases[b].sched.insts \ MeasPart(bases[b].sched)
        IN  /\ Len(bases) = 3
            /\ \A b \in 1 .. 3 :
                   /\ bases[b].basis = BasisOrder[b]
                   /\ MeasPart(bases[b].sched) = block
            /\ \A b \in 1 .. 2 :
                   /\ Cardinality(Rotation(b)) = 1
                   /\ \A r \in Rotation(b) :
                          /\ r.t0 = 0
                          /\ r.ch = DriveChannel(call.t_qubit)
                          /\ r.t0 + r.dur <= delay - backend.buffer
            /\ Rotation(3) = {}
            /\ ret.exc = "" =>
                   \A k \in Combos :
                       MeasPart(OutputOf(k)) =
                           MeasPart(ret.schedules[Position(k[1], 2, k[3])])

\* a tomography has returned on a backend whose y rotation is the longer
C9_Witness ==
    /\ TomographyReturned
    /\ Len(ret.schedules) > 0
    /\ backend.yrot > backend.xrot
    /\ backend.buffer > 0

(***************************************************************************)
(* C10: the six output schedules built from a Rabi schedule of positive    *)
(* duration d all have total duration                                      *)
(* flip + d + 3*buffer + max(x rotation, y rotation) + measurement,        *)
(* whatever the basis and the control state, and in each the measurement   *)
(* block starts only after every instruction of the Rabi schedule ended.   *)
(***************************************************************************)
C10_EqualDurations ==
    TomographyReturned =>
        \A k \in Combos :
            Duration(RabiOf(k)) > 0 =>
                /\ Duration(OutputOf(k)) =
                       backend.flip + Duration(RabiOf(k)) + 3 * backend.buffer
                       + Max(backend.xrot, backend.yrot) + backend.meas
                /\ MeasPart(OutputOf(k)) # {}
                /\ \A m \in MeasPart(OutputOf(k)) :
                       \A r \in RabiPart(OutputOf(k)) : m.t0 >= r.t0 + r.dur

\* six outputs of one Rabi schedule of positive duration
C10_Witness ==
    /\ TomographyReturned
    /\ \E i \in 0 .. Len(call.rabi_schedules) - 1 :
           /\ Duration(call.rabi_schedules[i + 1]) > 0
           /\ \A b \in 0 .. 2, c \in 0 .. 1 :
                  Duration(ret.schedules[Position(i, b, c)])
                      > Duration(call.rabi_schedules[i + 1])

====
